---- MODULE Spec2Model ----
(***************************************************************************)
(* Model of the zeshark resource code generator: the CLI of generate.ts,   *)
(* generateResource, the Safe Writer writeGenerated and the five hub        *)
(* updaters of barrel-updater.ts.                                           *)
(*                                                                          *)
(* File contents are sequences of text fragments (tokens).  The bytes of a  *)
(* file are the concatenation of its tokens.  Every needle the code looks   *)
(* for (markers, probes, import shapes, "\n") is a sequence of whole        *)
(* tokens, and resource names are sequences of syllables, so that           *)
(* String.includes / indexOf / lastIndexOf / slice / replace on the bytes   *)
(* are the same operations on the token sequences, including a probe that   *)
(* matches inside a longer name ("order: {" inside "border: {").            *)
(* Indices are 0-based, as in JavaScript; -1 means "not found".             *)
(***************************************************************************)
EXTENDS Integers, Sequences, FiniteSets, TLC

VARIABLES files, dirs, pc, args, resource, genIdx, exitCode, events,
          runs, files0, prev, batch, parser, duck, env, race, analytics

vars == <<files, dirs, pc, args, resource, genIdx, exitCode, events,
          runs, files0, prev, batch, parser, duck, env, race, analytics>>

\* The generator process leaves alone the state of the batch process, of an
\* extraction in steps, of the DuckDB client, of two generator processes
\* that run side by side and of the analytics file cache, and the
\* environment it runs in.
others == <<batch, parser, duck, env, race, analytics>>

\* Number of generator invocations one behaviour runs one after the other.
MaxRuns == 2

(***************************************************************************)
(* JavaScript string operations, on token sequences.                        *)
(***************************************************************************)
MinOf(S) == CHOOSE x \in S : \A y \in S : x <= y

MaxOf(S) == CHOOSE x \in S : \A y \in S : x >= y

\* needle occurs in s at 0-based index i
StartsAt(s, needle, i) ==
  /\ i >= 0
  /\ i + Len(needle) <= Len(s)
  /\ SubSeq(s, i + 1, i + Len(needle)) = needle

\* s.indexOf(needle, from)
IndexOfFrom(s, needle, from) ==
  LET lo == IF from < 0 THEN 0 ELSE from
      hits == {i \in lo..(Len(s) - Len(needle)) : StartsAt(s, needle, i)}
  IN IF hits = {} THEN -1 ELSE MinOf(hits)

\* s.indexOf(needle)
IndexOf(s, needle) == IndexOfFrom(s, needle, 0)

\* s.lastIndexOf(needle, from): last occurrence starting at an index <= from
LastIndexOfFrom(s, needle, from) ==
  LET hi == IF from < Len(s) - Len(needle) THEN from ELSE Len(s) - Len(needle)
      hits == {i \in 0..hi : StartsAt(s, needle, i)}
  IN IF hits = {} THEN -1 ELSE MaxOf(hits)

\* s.lastIndexOf(needle)
LastIndexOf(s, needle) == LastIndexOfFrom(s, needle, Len(s))

\* s.includes(needle)
Includes(s, needle) == IndexOf(s, needle) # -1

\* s.slice(0, b)
SliceTo(s, b) == SubSeq(s, 1, b)

\* s.slice(a)
SliceFrom(s, a) == SubSeq(s, a + 1, Len(s))

\* s.replace(needle, repl) with a string needle: the first occurrence only
ReplaceFirst(s, needle, repl) ==
  LET i == IndexOf(s, needle)
  IN IF i = -1 THEN s
     ELSE SliceTo(s, i) \o repl \o SliceFrom(s, i + Len(needle))

\* Tokens that are white space only.
WhiteSpace == {"\n", "  "}

\* s.trimEnd()
RECURSIVE trimEnd(_)
trimEnd(s) ==
  IF s # <<>> /\ s[Len(s)] \in WhiteSpace THEN trimEnd(SubSeq(s, 1, Len(s) - 1))
  ELSE s

\* First letter of a syllable in upper case.
UpperFirst(tok) ==
  CASE tok = "order" -> "Order"
    [] tok = "b" -> "B"
    [] tok = "ordre" -> "Ordre"
    [] OTHER -> tok

\* capitalize(s): s.charAt(0).toUpperCase() + s.slice(1)
capitalize(s) ==
  IF s = <<>> THEN <<>> ELSE <<UpperFirst(s[1])>> \o SubSeq(s, 2, Len(s))

NL == <<"\n">>

\* The lines of s: maximal runs of tokens between "\n" tokens.
RECURSIVE LinesOf(_)
LinesOf(s) ==
  LET i == IndexOf(s, NL)
  IN IF i = -1 THEN <<s>>
     ELSE <<SliceTo(s, i)>> \o LinesOf(SliceFrom(s, i + 1))

(***************************************************************************)
(* Resource declarations (src/schemas/<resourceName>.schema.ts) and their  *)
(* extraction.  A declaration file is described by what the extractor      *)
(* reads of it.                                                            *)
(***************************************************************************)
\* An absent property or variable declaration (undefined).
Undefined == <<"@undefined">>

\* typeof v === 'string', for a value of the literal evaluator: a string is
\* its text, any other value starts with the tag of its type.
IsString(v) ==
  v = <<>> \/ v[1] \notin {"@undefined", "@number", "@boolean", "@array", "@object"}

SchemaFile(calls, nargs, configObj, shapeObj, varName, name, pluralName, icon, description) ==
  [calls |-> calls, nargs |-> nargs, configObj |-> configObj, shapeObj |-> shapeObj,
   varName |-> varName, name |-> name, pluralName |-> pluralName, icon |-> icon,
   description |-> description]

\* The declaration files of the project, by the CLI's <resource-name>.
\* "order" is src/schemas/order.schema.ts; "border" declares neither icon nor
\* description; "ordre" sets pluralName: 'orders', the plural that "order"
\* derives; "widget" shares no name with another; the others are
\* declarations on which extraction throws.
SchemaFiles ==
  [order |-> SchemaFile(1, 2, TRUE, TRUE, <<"order", "Resource">>, <<"order">>, Undefined,
                        <<"FileText">>, <<"Vehicle sales orders">>),
   border |-> SchemaFile(1, 2, TRUE, TRUE, <<"b", "order", "Resource">>, <<"b", "order">>,
                         Undefined, Undefined, Undefined),
   ordre |-> SchemaFile(1, 2, TRUE, TRUE, <<"ordre", "Resource">>, <<"ordre">>,
                        <<"order", "s">>, Undefined, Undefined),
   widget |-> SchemaFile(1, 2, TRUE, TRUE, <<"widget", "Resource">>, <<"widget">>,
                         Undefined, Undefined, Undefined),
   nocall |-> SchemaFile(0, 0, FALSE, FALSE, Undefined, Undefined, Undefined, Undefined, Undefined),
   onearg |-> SchemaFile(1, 1, TRUE, FALSE, <<"x", "Resource">>, <<"x">>, Undefined, Undefined, Undefined),
   notobj |-> SchemaFile(1, 2, FALSE, TRUE, <<"x", "Resource">>, Undefined, Undefined, Undefined, Undefined),
   noname |-> SchemaFile(1, 2, TRUE, TRUE, <<"x", "Resource">>, Undefined, Undefined, Undefined, Undefined),
   noshape |-> SchemaFile(1, 2, TRUE, FALSE, <<"x", "Resource">>, <<"x">>, Undefined, Undefined, Undefined)]

\* <resource-name> arguments with no declaration file.
MissingSchemas == {"ghost"}

\* existsSync(schemaPath)
SchemaExists(resourceName) == resourceName \in DOMAIN SchemaFiles

\* A faulty variant: a config parser that does not require the name
parseConfigObject_NoNameCheck(f) ==
  [ok |-> TRUE, error |-> "", name |-> f.name,
   pluralName |-> IF IsString(f.pluralName) THEN f.pluralName ELSE f.name \o <<"s">>,
   icon |-> f.icon, description |-> f.description]

\* parseConfigObject: the name is required; the plural is derived if not set
parseConfigObject(f) ==
  IF ~f.configObj THEN [ok |-> FALSE, error |-> "Config must be an object literal"]
  ELSE IF f.name = Undefined \/ f.name = <<>> \/ ~IsString(f.name)
    THEN [ok |-> FALSE, error |-> "Resource config must have a name"]
  ELSE [ok |-> TRUE, error |-> "",
        name |-> f.name,
        pluralName |-> IF IsString(f.pluralName) THEN f.pluralName ELSE f.name \o <<"s">>,
        icon |-> f.icon,
        description |-> f.description]

\* parseResourceSchema: the defineResource call, its two arguments, the config
parseResourceSchema(f) ==
  IF f.calls = 0 THEN [ok |-> FALSE, error |-> "No defineResource() call found"]
  ELSE IF f.nargs < 2
    THEN [ok |-> FALSE, error |-> "defineResource requires config and shape arguments"]
  ELSE LET config == parseConfigObject(f)
       IN IF ~config.ok THEN [ok |-> FALSE, error |-> config.error]
          ELSE IF ~f.shapeObj THEN [ok |-> FALSE, error |-> "Shape must be an object literal"]
          ELSE [ok |-> TRUE, error |-> "", config |-> config,
                resourceVarName |-> IF f.varName # Undefined THEN f.varName
                                    ELSE <<"resource">>]

NoResource == [ok |-> FALSE, error |-> "none"]

(***************************************************************************)
(* Paths, and the file system: files maps each existing path to its         *)
(* content, dirs is the set of existing directories.                        *)
(***************************************************************************)
Path(dir, file) == [dir |-> dir, file |-> file]

SchemasDir == <<"./src/schemas">>

CollectionsDir == <<"./src/collections">>

LibDir == <<"./src/lib">>

SchemasBarrelPath == Path(SchemasDir, <<"index.ts">>)

CollectionsBarrelPath == Path(CollectionsDir, <<"index.ts">>)

RegistryPath == Path(LibDir, <<"registry.ts">>)

DbClientPath == Path(LibDir, <<"db-client.ts">>)

NavigationPath == Path(LibDir, <<"navigation.ts">>)

HubPaths == {SchemasBarrelPath, CollectionsBarrelPath, RegistryPath, DbClientPath,
             NavigationPath}

\* existsSync(path) for a file
existsSync(fl, path) == path \in DOMAIN fl

\* writeFileSync throws ENOENT when the directory of the path does not exist
WriteThrows(dr, path) == path.dir \notin dr

\* the files after a writeFileSync(path, content) that did not throw
writeFileSync(fl, path, content) ==
  [q \in (DOMAIN fl) \cup {path} |-> IF q = path THEN content ELSE fl[q]]

\* Outcome of one hub update: the files after it, whether it wrote, whether it
\* threw, and what it logged.
Outcome(fl, wrote, threw, log) ==
  [files |-> fl, wrote |-> wrote, threw |-> threw, log |-> log]

\* Write a hub file, or throw.
HubWrite(fl, dr, path, content, log) ==
  IF WriteThrows(dr, path) THEN Outcome(fl, FALSE, TRUE, "threw")
  ELSE Outcome(writeFileSync(fl, path, content), TRUE, FALSE, log)

(***************************************************************************)
(* The Wiring Merge Engine: the five hub updaters.  Each xxxContent is the  *)
(* new text the updater computes from the text it read; each updateXxx is   *)
(* the whole function on the file system.                                   *)
(***************************************************************************)
Indent(n) == [i \in 1..n |-> "  "]

\* export { <var> } from './<name>.schema'
SchemaExportLine(resourceName, resourceVarName) ==
  <<"export { ">> \o resourceVarName \o <<" } ", "from './">> \o resourceName
    \o <<".schema'">>

\* the schemas barrel as created when it does not exist
SchemasBarrelCreated(resourceName, resourceVarName) ==
  <<"// AUTO-UPDATED by codegen", "\n", "export * ", "from './", "_resource", ".schema'",
    "\n", "\n", "// === RESOURCE EXPORTS (auto-generated) ===", "\n">>
    \o SchemaExportLine(resourceName, resourceVarName) \o NL

\* content.trimEnd() + '\n' + exportLine + '\n'
AppendExport(content, exportLine) == trimEnd(content) \o NL \o exportLine \o NL

updateSchemasBarrel(fl, dr, resourceName, resourceVarName) ==
  LET path == SchemasBarrelPath
      exportLine == SchemaExportLine(resourceName, resourceVarName)
  IN IF ~existsSync(fl, path)
       THEN HubWrite(fl, dr, path, SchemasBarrelCreated(resourceName, resourceVarName),
                     "created")
     ELSE IF Includes(fl[path], exportLine) THEN Outcome(fl, FALSE, FALSE, "unchanged")
     ELSE HubWrite(fl, dr, path, AppendExport(fl[path], exportLine), "updated")

\* export { <plural>Collection, type <TypeName> } from './<plural>.collection'
CollectionExportLine(resourceName, pluralName) ==
  <<"export { ">> \o pluralName \o <<"Collection", ", type ">> \o capitalize(resourceName)
    \o <<" } ", "from './">> \o pluralName \o <<".collection'">>

\* the collections barrel as created when it does not exist
CollectionsBarrelCreated(resourceName, pluralName) ==
  <<"// AUTO-UPDATED by codegen", "\n", "\n",
    "// === COLLECTION EXPORTS (auto-generated) ===", "\n">>
    \o CollectionExportLine(resourceName, pluralName) \o NL

updateCollectionsBarrel(fl, dr, resourceName, pluralName) ==
  LET path == CollectionsBarrelPath
      exportLine == CollectionExportLine(resourceName, pluralName)
  IN IF ~existsSync(fl, path)
       THEN HubWrite(fl, dr, path, CollectionsBarrelCreated(resourceName, pluralName),
                     "created")
     ELSE IF Includes(fl[path], exportLine) THEN Outcome(fl, FALSE, FALSE, "unchanged")
     ELSE HubWrite(fl, dr, path, AppendExport(fl[path], exportLine), "updated")

\* s with ins and a line break inserted after the line that holds index at
\* (endOfLine = s.indexOf('\n', at); slice(0, endOfLine + 1) + ins + '\n' + slice(endOfLine + 1))
InsertAfterLineOf(s, at, ins) ==
  LET endOfLine == IndexOfFrom(s, NL, at)
  IN SliceTo(s, endOfLine + 1) \o ins \o NL \o SliceFrom(s, endOfLine + 1)

\* The heads and the "from" fragments of import statements, and the fragments
\* that end in a blank: a line matches /^import .+ from .+$/ when it starts
\* with "import ", and holds " from " with text on both sides.
ImportHeads == {"import { ", "import type { "}

FromToks == {"from '@/schemas", "from '@/collections", "from '@tanstack/db'",
             "from './query-client'", "from './"}

IsImportLine(line) ==
  /\ line # <<>>
  /\ line[1] \in ImportHeads
  /\ \E i \in 3..Len(line) : line[i] \in FromToks /\ line[i - 1] = " } "

\* newContent.match(/^import .+ from .+$/gm): the matched lines, in order
ImportMatches(s) == SelectSeq(LinesOf(s), IsImportLine)

\* A faulty variant: a probe for a key the entry never holds
RegistryProbe_WrongKey(resourceName) == resourceName \o <<"s", ": ", "{">>

RegistryProbe(resourceName) == resourceName \o <<": ", "{">>

RegistryMarker == <<"// === REGISTRY ENTRIES ===">>

RegistryImportLine(resourceName, resourceVarName) ==
  <<"import { ">> \o resourceVarName \o <<" } ", "from '@/schemas", "/">> \o resourceName
    \o <<".schema'">>

CollectionImportLine(pluralName) ==
  <<"import { ">> \o pluralName \o <<"Collection", " } ", "from '@/collections", "'">>

\* (BQ stands for the back quote of the template string of the edit route)
RegistryEntry(resourceName, pluralName, resourceVarName) ==
  Indent(1) \o resourceName \o <<": ", "{", "\n">>
    \o Indent(2) \o <<"config: ">> \o resourceVarName \o <<".config", ",", "\n">>
    \o Indent(2) \o <<"collection: ">> \o pluralName \o <<"Collection", ",", "\n">>
    \o Indent(2) \o <<"routes", ": ", "{", "\n">>
    \o Indent(3) \o <<"list: '/">> \o pluralName \o <<"'", ",", "\n">>
    \o Indent(3) \o <<"new: '/">> \o pluralName \o <<"/new'", ",", "\n">>
    \o Indent(3) \o <<"edit: (id: string) => BQ/">> \o pluralName \o <<"/${id}BQ", ",", "\n">>
    \o Indent(2) \o <<"}", ",", "\n">>
    \o Indent(1) \o <<"}", ",">>

\* the schema import, after the last schema import's line or at the top
RegistryWithSchemaImport(content, importLine) ==
  LET schemaImportMarker == <<"from '@/schemas">>
  IN IF Includes(content, schemaImportMarker)
       THEN InsertAfterLineOf(content, LastIndexOf(content, schemaImportMarker), importLine)
     ELSE importLine \o NL \o content

\* the collection import, after the last import statement
RegistryWithCollectionImport(newContent, pluralName) ==
  LET collectionImportLine == CollectionImportLine(pluralName)
      importMatch == ImportMatches(newContent)
  IN IF Includes(newContent, pluralName \o <<"Collection">>) THEN newContent
     ELSE IF importMatch # <<>>
       THEN InsertAfterLineOf(newContent,
                              LastIndexOf(newContent, importMatch[Len(importMatch)]),
                              collectionImportLine)
     ELSE InsertAfterLineOf(newContent, 0, collectionImportLine)

\* A faulty variant: the entry written over the marker
WithEntryAtMarker_OverMarker(newContent, marker, entry) ==
  IF Includes(newContent, marker) THEN ReplaceFirst(newContent, marker, entry)
  ELSE newContent

\* the entry, right after the marker if the marker is there
WithEntryAtMarker(newContent, marker, entry) ==
  IF Includes(newContent, marker)
    THEN ReplaceFirst(newContent, marker, marker \o NL \o entry)
  ELSE newContent

\* the text updateRegistry writes for a resource that is not registered
RegistryContent(content, resourceName, pluralName, resourceVarName) ==
  WithEntryAtMarker(
    RegistryWithCollectionImport(
      RegistryWithSchemaImport(content, RegistryImportLine(resourceName, resourceVarName)),
      pluralName),
    RegistryMarker,
    RegistryEntry(resourceName, pluralName, resourceVarName))

updateRegistry(fl, dr, resourceName, pluralName, resourceVarName) ==
  LET path == RegistryPath
  IN IF ~existsSync(fl, path) THEN Outcome(fl, FALSE, FALSE, "not found, skipping")
     ELSE IF Includes(fl[path], RegistryProbe(resourceName))
       THEN Outcome(fl, FALSE, FALSE, "unchanged")
     ELSE HubWrite(fl, dr, path,
                   RegistryContent(fl[path], resourceName, pluralName, resourceVarName),
                   "updated")

\* A faulty variant: a probe that finds no resource registered
DbClientProbe_Never(pluralName) == <<"@unregistered">>

DbClientProbe(pluralName) == pluralName \o <<": ">> \o pluralName \o <<"Collection">>

CollectionsMarker == <<"// === COLLECTIONS ===">>

DbClientEntry(pluralName) ==
  Indent(2) \o pluralName \o <<": ">> \o pluralName \o <<"Collection", ",">>

\* the collection import, unless the collection is named in the file already
DbClientWithImport(content, pluralName) ==
  LET importLine == CollectionImportLine(pluralName)
      collectionImportMarker == <<"from '@/collections">>
  IN IF Includes(content, pluralName \o <<"Collection">>) THEN content
     ELSE IF Includes(content, collectionImportMarker)
       THEN InsertAfterLineOf(content, LastIndexOf(content, collectionImportMarker),
                              importLine)
     ELSE importLine \o NL \o content

\* the text updateDbClient writes for a resource that is not registered
DbClientContent(content, pluralName) ==
  WithEntryAtMarker(DbClientWithImport(content, pluralName), CollectionsMarker,
                    DbClientEntry(pluralName))

updateDbClient(fl, dr, resourceName, pluralName) ==
  LET path == DbClientPath
  IN IF ~existsSync(fl, path) THEN Outcome(fl, FALSE, FALSE, "not found, skipping")
     ELSE IF Includes(fl[path], DbClientProbe(pluralName))
       THEN Outcome(fl, FALSE, FALSE, "unchanged")
     ELSE HubWrite(fl, dr, path, DbClientContent(fl[path], pluralName), "updated")

NavProbe(pluralName) == <<"href: '/">> \o pluralName \o <<"'">>

NavMarker == <<"// === RESOURCE NAV ITEMS ===">>

LucideImportEnd == <<"} from 'lucide-react'">>

\* description ?? `Manage ${pluralName}`
NavDescription(pluralName, description) ==
  IF description = Undefined THEN <<"Manage ">> \o pluralName ELSE description

NavItem(pluralName, icon, description) ==
  Indent(2) \o <<"{", "\n">>
    \o Indent(3) \o <<"title: '">> \o capitalize(pluralName) \o <<"'", ",", "\n">>
    \o Indent(3) \o <<"href: '/">> \o pluralName \o <<"'", ",", "\n">>
    \o Indent(3) \o <<"icon: ">> \o icon \o <<",", "\n">>
    \o Indent(3) \o <<"description: '">> \o NavDescription(pluralName, description)
    \o <<"'", ",", "\n">>
    \o Indent(2) \o <<"}", ",">>

\* the icon, on a line of its own before the closing brace of the
\* lucide-react import, unless the file names the icon already
NavWithIcon(content, icon) ==
  LET lucideImportEnd == IndexOf(content, LucideImportEnd)
      beforeBrace == LastIndexOfFrom(content, NL, lucideImportEnd)
  IN IF Includes(content, Indent(1) \o icon \o <<",">>)
        \/ Includes(content, Indent(1) \o icon \o NL)
       THEN content
     ELSE IF lucideImportEnd # -1
       THEN SliceTo(content, beforeBrace + 1) \o Indent(1) \o icon \o <<",", "\n">>
              \o SliceFrom(content, beforeBrace + 1)
     ELSE content

\* the text updateNavigation writes for a resource that has no nav item
NavigationContent(content, pluralName, icon, description) ==
  WithEntryAtMarker(NavWithIcon(content, icon), NavMarker,
                    NavItem(pluralName, icon, description))

updateNavigation(fl, dr, resourceName, pluralName, icon, description) ==
  LET path == NavigationPath
  IN IF ~existsSync(fl, path) THEN Outcome(fl, FALSE, FALSE, "not found, skipping")
     ELSE IF Includes(fl[path], NavProbe(pluralName))
       THEN Outcome(fl, FALSE, FALSE, "unchanged")
     ELSE HubWrite(fl, dr, path,
                   NavigationContent(fl[path], pluralName, icon, description), "updated")

(***************************************************************************)
(* The Safe Writer.                                                         *)
(***************************************************************************)
\* mkdirSync(dir, {recursive: true}) when the directory does not exist
mkdirSync(dr, dir) == dr \cup {dir}

\* What a content producer returns when it emits nothing.
Null == <<"@null">>

\* A faulty variant: a writer without the overwrite gate: it writes whatever exists
writeGenerated_NoGate(fl, dr, e, filePath, content, force) ==
  [files |-> writeFileSync(fl, filePath, content), dirs |-> mkdirSync(dr, filePath.dir),
   result |-> TRUE, threw |-> FALSE]

\* writeGenerated(filePath, content, {force}) in environment e: the files and
\* directories after the call, its result, and whether it threw.
\* writeFileSync throws EACCES on a file without write permission, and a
\* TypeError (ERR_INVALID_ARG_TYPE), before it opens the file, on a content
\* of null.
writeGenerated(fl, dr, e, filePath, content, force) ==
  LET dr2 == IF filePath.dir \notin dr THEN mkdirSync(dr, filePath.dir) ELSE dr
  IN IF existsSync(fl, filePath) /\ ~force
       THEN [files |-> fl, dirs |-> dr2, result |-> FALSE, threw |-> FALSE]
     ELSE IF content = Null \/ filePath \in e.readonly
       THEN [files |-> fl, dirs |-> dr2, result |-> FALSE, threw |-> TRUE]
     ELSE [files |-> writeFileSync(fl, filePath, content), dirs |-> dr2, result |-> TRUE,
           threw |-> FALSE]

(***************************************************************************)
(* The Artifact Orchestrator: the generators of generateResource, routes    *)
(* flattened into its three files, in declaration order.                    *)
(***************************************************************************)
\* What a content producer returns for a resource: an opaque text.
Generated(kind, resourceName) == <<"@generated", kind>> \o resourceName

Generator(name, dir, file, content) ==
  [name |-> name, path |-> Path(dir, file), content |-> content]

Generators(res) ==
  LET name == res.config.name
      pluralName == res.config.pluralName
      routesDir == <<"./src/routes/_app/">> \o pluralName
  IN << Generator("collection", CollectionsDir, pluralName \o <<".collection.ts">>,
                  Generated("collection", name)),
        Generator("routes", routesDir, <<"index.tsx">>, Generated("route-index", name)),
        Generator("routes", routesDir, <<"new.tsx">>, Generated("route-new", name)),
        Generator("routes", routesDir, <<"$">> \o name \o <<"Id.tsx">>,
                  Generated("route-edit", name)),
        Generator("form", <<"./src/components/forms">>, name \o <<"-form.tsx">>,
                  Generated("form", name)),
        Generator("columns", <<"./src/components/tables">>, name \o <<"-columns.tsx">>,
                  Generated("columns", name)) >>

\* gen.generate() in environment e: the text of the producer, or null
Produce(e, gen) == IF gen.name \in e.nulls THEN Null ELSE gen.content

\* A faulty variant: a loop that ignores --only
Selected_All(only, gen) == TRUE

\* if (options.only && gen.name !== options.only) continue
Selected(only, gen) == ~(only # "@undefined" /\ only # "" /\ gen.name # only)

\* the index of the first generator file from i on that the loop does not skip
NextGen(gens, only, i) ==
  LET rest == {j \in i..Len(gens) : Selected(only, gens[j])}
  IN IF rest = {} THEN Len(gens) + 1 ELSE MinOf(rest)

(***************************************************************************)
(* The hub files of a project before any resource is wired (the shape of    *)
(* src/lib/registry.ts, db-client.ts and navigation.ts without the order    *)
(* resource; text the updaters never look at is kept as one token).         *)
(***************************************************************************)
SchemasBarrelPristine ==
  <<"// AUTO-UPDATED by codegen", "\n", "export * ", "from './", "_resource", ".schema'",
    "\n", "\n", "// === RESOURCE EXPORTS (auto-generated) ===", "\n">>

CollectionsBarrelPristine ==
  <<"// AUTO-UPDATED by codegen", "\n", "\n",
    "// === COLLECTION EXPORTS (auto-generated) ===", "\n">>

RegistryPristine ==
  <<"// AUTO-UPDATED by codegen - imports and entries added here", "\n", "\n",
    "import type { ", "ResourceConfig", " } ", "from '@/schemas", "/_resource.schema'", "\n",
    "// Resource registry entry type", "\n",
    "export const resourceRegistry: Record<string, ResourceEntry> = {", "\n">>
    \o Indent(1) \o RegistryMarker \o NL
    \o <<"}", "\n">>

DbClientPristine ==
  <<"// AUTO-UPDATED by codegen - collection imports added here", "\n", "\n",
    "import { ", "createDbClient", " } ", "from '@tanstack/db'", "\n",
    "import { ", "queryClient", " } ", "from './query-client'", "\n", "\n",
    "export const db = createDbClient({", "\n">>
    \o Indent(1) \o <<"queryClient,", "\n">>
    \o Indent(1) \o <<"collections: {", "\n">>
    \o Indent(2) \o CollectionsMarker \o NL
    \o Indent(1) \o <<"}", ",", "\n", "})", "\n">>

NavigationPristine ==
  <<"// AUTO-UPDATED by codegen - nav items and icons added here", "\n", "\n",
    "import {", "\n">>
    \o Indent(1) \o <<"LayoutDashboard", ",", "\n">>
    \o Indent(1) \o <<"Package", ",", "\n">>
    \o Indent(1) \o <<"type LucideIcon", ",", "\n">>
    \o LucideImportEnd \o NL \o NL
    \o <<"export const mainNavigation: NavSection[] = [", "\n">>
    \o Indent(2) \o <<"items: [", "\n">>
    \o Indent(3) \o NavMarker \o NL
    \o Indent(2) \o <<"]", ",", "\n", "]", "\n">>

\* The hub with the line of its insertion marker deleted by hand.
WithoutMarkerLine(content, n, marker) == ReplaceFirst(content, Indent(n) \o marker \o NL, <<>>)

HubStates == {"absent", "pristine", "nomarker"}

\* The text of hub path h in state st ("pristine" or "nomarker").
HubText(h, st) ==
  CASE h = SchemasBarrelPath -> SchemasBarrelPristine
    [] h = CollectionsBarrelPath -> CollectionsBarrelPristine
    [] h = RegistryPath ->
         IF st = "nomarker" THEN WithoutMarkerLine(RegistryPristine, 1, RegistryMarker)
         ELSE RegistryPristine
    [] h = DbClientPath ->
         IF st = "nomarker" THEN WithoutMarkerLine(DbClientPristine, 2, CollectionsMarker)
         ELSE DbClientPristine
    [] h = NavigationPath ->
         IF st = "nomarker" THEN WithoutMarkerLine(NavigationPristine, 3, NavMarker)
         ELSE NavigationPristine

MarkerHubs == {RegistryPath, DbClientPath, NavigationPath}

\* The insertion marker of a marker-based hub.
MarkerOf(h) ==
  CASE h = RegistryPath -> RegistryMarker
    [] h = DbClientPath -> CollectionsMarker
    [] h = NavigationPath -> NavMarker

\* The projects a behaviour starts from: every hub pristine, every hub absent,
\* or every hub pristine but one, which is absent or has lost its marker.
Layouts ==
  {[h \in HubPaths |-> "pristine"], [h \in HubPaths |-> "absent"]}
    \cup {[h \in HubPaths |-> IF h = g THEN "absent" ELSE "pristine"] : g \in HubPaths}
    \cup {[h \in HubPaths |-> IF h = g THEN "nomarker" ELSE "pristine"] : g \in MarkerHubs}

\* A generated file of an earlier run that was edited by hand since.
HandEdited == <<"@hand-edited">>

\* The files of a project: its hubs, and the artifacts of the resources in
\* edited, each edited by hand.
InitialFiles(layout, edited) ==
  LET hubs == {h \in HubPaths : layout[h] # "absent"}
      arts == UNION {{Generators(parseResourceSchema(SchemaFiles[r]))[i].path : i \in 1..6}
                     : r \in edited}
  IN [q \in hubs \cup arts |-> IF q \in hubs THEN HubText(q, layout[q]) ELSE HandEdited]

\* The directories of a project: src/schemas, and those of its files.
InitialDirs(fl) == {SchemasDir} \cup {q.dir : q \in DOMAIN fl}

(***************************************************************************)
(* The generator process: the CLI of generate.ts and generateResource.      *)
(***************************************************************************)
\* The <resource-name> arguments of the command lines below ("ordre" is
\* generated in the behaviours of SpecEdge).
ResourceNames == (DOMAIN SchemaFiles \ {"ordre", "widget"}) \cup MissingSchemas \cup {"@none"}

OnlyValues == {"@undefined", "", "collection", "routes", "form", "columns", "bogus"}

Options == [force : BOOLEAN, only : OnlyValues, skipWiring : BOOLEAN]

Arguments(resourceName, o) ==
  [resourceName |-> resourceName, force |-> o.force, only |-> o.only,
   skipWiring |-> o.skipWiring]

\* The command lines of the model: every combination of options for the
\* resources whose declaration parses, and two combinations for the command
\* lines that fail before any option is looked at.
Argv ==
  {Arguments(r, o) : r \in {"order", "border"}, o \in Options}
    \cup {Arguments(r, o) : r \in ResourceNames \ {"order", "border"},
                            o \in {[force |-> FALSE, only |-> "@undefined", skipWiring |-> FALSE],
                                   [force |-> TRUE, only |-> "form", skipWiring |-> FALSE]}}

NoArgs == [resourceName |-> "@none", force |-> FALSE, only |-> "@undefined",
           skipWiring |-> FALSE]

Running == -1

\* Every hub file exists, and every marker-based hub holds its marker.
HubsReady(fl) ==
  /\ HubPaths \subseteq DOMAIN fl
  /\ \A h \in MarkerHubs : Includes(fl[h], MarkerOf(h))

Event(op, target, outcome) == [op |-> op, target |-> target, outcome |-> outcome]

\* What a run remembers of the run before it: the resource of a plain
\* `generate R` (no --only, no --skip-wiring) that ended with exit code 0 from
\* a project whose hubs were ready; NoPrev for any other run, and at the start.
NoPrev == [plain |-> FALSE, resourceName |-> "@none"]

Summary(a, code, fl0) ==
  IF a.only = "@undefined" /\ ~a.skipWiring /\ code = 0 /\ HubsReady(fl0)
    THEN [plain |-> TRUE, resourceName |-> a.resourceName]
  ELSE NoPrev

\* The batch process, an extraction in steps, the DuckDB client, the two
\* generator processes side by side or the analytics file cache, when the
\* behaviour is not about it.
Off == [pc |-> "off"]

\* The environment of a run: the paths writeFileSync cannot write (files
\* without write permission), and the artifact kinds whose content producer
\* returns null for the resource at hand.
Env(readonly, nulls) == [readonly |-> readonly, nulls |-> nulls]

\* Every file is writable and every producer returns a text.
NoFaults == Env({}, {})

Init ==
  /\ batch = Off
  /\ parser = Off
  /\ duck = Off
  /\ env = NoFaults
  /\ race = Off
  /\ analytics = Off
  /\ \E layout \in Layouts, edited \in {{}, {"order"}} :
       /\ edited # {} => layout = [h \in HubPaths |-> "pristine"]
       /\ files = InitialFiles(layout, edited)
       /\ dirs = InitialDirs(files)
  /\ pc = "idle"
  /\ args = NoArgs
  /\ resource = NoResource
  /\ genIdx = 0
  /\ exitCode = Running
  /\ events = <<>>
  /\ runs = 0
  /\ files0 = files
  /\ prev = NoPrev

\* process.exit(code), or the end of the script
Exit(code) == pc' = "exited" /\ exitCode' = code

\* The top-level code of generate.ts on arguments argv: without a resource
\* name it prints the usage and exits with 1, otherwise it calls
\* generateResource.
Launch(argv) ==
  /\ pc \in {"idle", "exited"}
  /\ runs' = runs + 1
  /\ args' = argv
  /\ prev' = Summary(args, exitCode, files0)
  /\ files0' = files
  /\ events' = <<>>
  /\ resource' = NoResource
  /\ genIdx' = 0
  /\ IF argv.resourceName = "@none" THEN Exit(1)
     ELSE pc' = "generateResource" /\ exitCode' = Running
  /\ UNCHANGED <<files, dirs>>

\* The CLI: `pnpm generate` run as a new process on arguments argv.
CLI(argv) ==
  /\ runs < MaxRuns
  /\ Launch(argv)
  /\ UNCHANGED others

\* generateResource, up to the parse: a missing declaration file exits with 1
CheckSchema ==
  /\ pc = "generateResource"
  /\ IF ~SchemaExists(args.resourceName) THEN Exit(1)
     ELSE pc' = "parse" /\ UNCHANGED exitCode
  /\ UNCHANGED <<files, dirs, args, resource, genIdx, events, runs, files0, prev>>
  /\ UNCHANGED others

\* A faulty variant: wiring that ignores --skip-wiring
AfterGenerate_Always(skipWiring) == "schemasBarrel"

\* where the run goes after the generator loop
AfterGenerate(skipWiring) == IF skipWiring THEN "success" ELSE "schemasBarrel"

\* await parseResourceSchema(schemaPath): a throw is caught by the CLI's
\* .catch, which exits with 1
ParseSchema ==
  /\ pc = "parse"
  /\ LET res == parseResourceSchema(SchemaFiles[args.resourceName])
     IN IF ~res.ok THEN Exit(1) /\ UNCHANGED <<resource, genIdx>>
        ELSE /\ resource' = res
             /\ genIdx' = NextGen(Generators(res), args.only, 1)
             /\ pc' = IF genIdx' > Len(Generators(res)) THEN AfterGenerate(args.skipWiring)
                      ELSE "generate"
             /\ UNCHANGED exitCode
  /\ UNCHANGED <<files, dirs, args, events, runs, files0, prev>>
  /\ UNCHANGED others

\* one writeGenerated call of the generator loop; a throw is caught by the
\* CLI's .catch, which exits with 1
WriteArtifact ==
  /\ pc = "generate"
  /\ LET gens == Generators(resource)
         gen == gens[genIdx]
         w == writeGenerated(files, dirs, env, gen.path, Produce(env, gen), args.force)
     IN /\ files' = w.files
        /\ dirs' = w.dirs
        /\ events' = Append(events, Event("write", gen.path,
                                          IF w.threw THEN "threw"
                                          ELSE IF w.result THEN "written" ELSE "skipped"))
        /\ IF w.threw THEN Exit(1) /\ UNCHANGED genIdx
           ELSE /\ genIdx' = NextGen(gens, args.only, genIdx + 1)
                /\ pc' = IF genIdx' > Len(gens) THEN AfterGenerate(args.skipWiring)
                         ELSE "generate"
                /\ UNCHANGED exitCode
  /\ UNCHANGED <<args, resource, runs, files0, prev>>
  /\ UNCHANGED others

\* One hub updater called by generateResource: a throw ends the run with 1.
HubStep(at, path, out, next) ==
  /\ pc = at
  /\ files' = out.files
  /\ events' = Append(events, Event("hub", path, out.log))
  /\ IF out.threw THEN Exit(1) ELSE pc' = next /\ UNCHANGED exitCode
  /\ UNCHANGED <<dirs, args, resource, genIdx, runs, files0, prev>>
  /\ UNCHANGED others

\* config.icon ?? 'Package'
IconOrDefault(icon) == IF icon = Undefined THEN <<"Package">> ELSE icon

\* The call generateResource makes for hub path h, on a parsed resource.
Wire(h, fl, dr, res) ==
  CASE h = SchemasBarrelPath ->
         updateSchemasBarrel(fl, dr, res.config.name, res.resourceVarName)
    [] h = CollectionsBarrelPath ->
         updateCollectionsBarrel(fl, dr, res.config.name, res.config.pluralName)
    [] h = RegistryPath ->
         updateRegistry(fl, dr, res.config.name, res.config.pluralName, res.resourceVarName)
    [] h = DbClientPath ->
         updateDbClient(fl, dr, res.config.name, res.config.pluralName)
    [] h = NavigationPath ->
         updateNavigation(fl, dr, res.config.name, res.config.pluralName,
                          IconOrDefault(res.config.icon), res.config.description)

\* A faulty variant: the registry updated before the barrels
HubOrder_RegistryFirst ==
  <<RegistryPath, SchemasBarrelPath, CollectionsBarrelPath, DbClientPath, NavigationPath>>

\* The hubs in the order generateResource updates them.
HubOrder == <<SchemasBarrelPath, CollectionsBarrelPath, RegistryPath, DbClientPath,
              NavigationPath>>

UpdateSchemasBarrel ==
  HubStep("schemasBarrel", HubOrder[1], Wire(HubOrder[1], files, dirs, resource),
          "collectionsBarrel")

UpdateCollectionsBarrel ==
  HubStep("collectionsBarrel", HubOrder[2], Wire(HubOrder[2], files, dirs, resource),
          "registry")

UpdateRegistry ==
  HubStep("registry", HubOrder[3], Wire(HubOrder[3], files, dirs, resource), "dbClient")

UpdateDbClient ==
  HubStep("dbClient", HubOrder[4], Wire(HubOrder[4], files, dirs, resource), "navigation")

UpdateNavigation ==
  HubStep("navigation", HubOrder[5], Wire(HubOrder[5], files, dirs, resource), "success")

\* logSuccess, and the script ends: exit code 0
Succeed ==
  /\ pc = "success"
  /\ Exit(0)
  /\ UNCHANGED <<files, dirs, args, resource, genIdx, events, runs, files0, prev>>
  /\ UNCHANGED others

Next ==
  \/ \E argv \in Argv : CLI(argv)
  \/ CheckSchema
  \/ ParseSchema
  \/ WriteArtifact
  \/ UpdateSchemasBarrel
  \/ UpdateCollectionsBarrel
  \/ UpdateRegistry
  \/ UpdateDbClient
  \/ UpdateNavigation
  \/ Succeed

Spec == Init /\ [][Next]_vars

(***************************************************************************)
(* The generator on a project with edge conditions: an artifact of an       *)
(* earlier run that has lost its write permission, a content producer that  *)
(* returns null, and two resources that share a plural name.                *)
(***************************************************************************)
\* The environments: no fault, the form of order read-only, or the producer
\* of one artifact kind returning null.
Envs(fl) ==
  {NoFaults, Env({}, {"routes"}), Env({}, {"form"})}
    \cup {Env({q}, {}) : q \in {Generators(parseResourceSchema(SchemaFiles["order"]))[5].path}
                                \cap DOMAIN fl}

\* `generate order` and `generate ordre`, with or without --force.
ArgvEdge ==
  {Arguments(r, [force |-> f, only |-> "@undefined", skipWiring |-> FALSE]) :
     r \in {"order", "ordre"}, f \in BOOLEAN}

InitEdge ==
  /\ batch = Off
  /\ parser = Off
  /\ duck = Off
  /\ race = Off
  /\ analytics = Off
  /\ \E edited \in {{}, {"order"}} :
       /\ files = InitialFiles([h \in HubPaths |-> "pristine"], edited)
       /\ dirs = InitialDirs(files)
  /\ env \in Envs(files)
  /\ pc = "idle"
  /\ args = NoArgs
  /\ resource = NoResource
  /\ genIdx = 0
  /\ exitCode = Running
  /\ events = <<>>
  /\ runs = 0
  /\ files0 = files
  /\ prev = NoPrev

NextEdge ==
  \/ \E argv \in ArgvEdge : CLI(argv)
  \/ CheckSchema
  \/ ParseSchema
  \/ WriteArtifact
  \/ UpdateSchemasBarrel
  \/ UpdateCollectionsBarrel
  \/ UpdateRegistry
  \/ UpdateDbClient
  \/ UpdateNavigation
  \/ Succeed

SpecEdge == InitEdge /\ [][NextEdge]_vars

(***************************************************************************)
(* The batch process: generateAll of generate-all.ts.  It shares the file   *)
(* system with the generator runs it starts: the one that the import of     *)
(* generate.ts starts inside the batch process, and one child process       *)
(* (`pnpm generate <name>`, waited for by execSync) per discovered file.     *)
(***************************************************************************)
\* The most declaration files, besides the base file, in src/schemas.
MaxFiles == 2

\* src/schemas/_resource.schema.ts
BaseSchemaFile == <<"_resource", ".schema.ts">>

\* The declaration files a project may hold besides the base file.
BatchNames == {"order", "border", "noname", "nocall"}

\* The sequences of distinct elements of S, of length n at most.
RECURSIVE DistinctSeqs(_, _)
DistinctSeqs(S, n) ==
  IF n = 0 \/ S = {} THEN {<<>>}
  ELSE {<<>>} \cup UNION {{<<x>> \o t : t \in DistinctSeqs(S \ {x}, n - 1)} : x \in S}

\* What the glob ./src/schemas/*.schema.ts matches, in the order it yields:
\* the base file, audit_resource.schema.ts in some projects, and the
\* declaration files of up to MaxFiles resources.
Listings ==
  {<<BaseSchemaFile>> \o extra \o [i \in 1..Len(q) |-> <<q[i], ".schema.ts">>] :
     extra \in {<<>>, <<(<<"audit", "_resource", ".schema.ts">>)>>},
     q \in DistinctSeqs(BatchNames, MaxFiles)}

\* getSchemaFiles: the matched paths that do not include '_resource.schema.ts'
getSchemaFiles(listing) ==
  SelectSeq(listing, LAMBDA p : ~Includes(p, <<"_resource", ".schema.ts">>))

\* basename(file, '.schema.ts'): the name without the extension (its first
\* word; the declaration files of the model that are listed have one word)
basename(file, ext) ==
  LET stem == IF file[Len(file)] = ext THEN SliceTo(file, Len(file) - 1) ELSE file
  IN stem[1]

\* A faulty variant: a loop that lets the failure of a child end the batch
AfterChild_Propagate(code) == IF code # 0 THEN "exited" ELSE "loop"

\* try { execSync(...) } catch { logError(...) }: the loop goes on
AfterChild(code) == "loop"

\* The batch process before its first step, run with no argument or with
\* one resource name; no generator has run.
InitBatch ==
  /\ parser = Off
  /\ duck = Off
  /\ env = NoFaults
  /\ race = Off
  /\ analytics = Off
  /\ \E layout \in Layouts :
       /\ files = InitialFiles(layout, {})
       /\ dirs = InitialDirs(files)
  /\ pc = "idle"
  /\ args = NoArgs
  /\ resource = NoResource
  /\ genIdx = 0
  /\ exitCode = Running
  /\ events = <<>>
  /\ runs = 0
  /\ files0 = files
  /\ prev = NoPrev
  /\ \E listing \in Listings :
       \E argv \in {"@none", "ghost"} \cup {listing[k][1] : k \in 2..Len(listing)} :
         /\ argv # "audit"
         /\ batch = [pc |-> "scan", argv |-> argv, listing |-> listing,
                     schemaFiles |-> <<>>, i |-> 0, attempts |-> <<>>, failed |-> <<>>,
                     exitCode |-> Running, completed |-> FALSE]

\* The generator variables a step of the batch process itself leaves alone.
generatorVars == <<files, dirs, pc, args, resource, genIdx, exitCode, events, runs, files0,
                   prev>>

\* getSchemaFiles(); with no declaration file the batch exits with 0
BatchScan ==
  /\ batch.pc = "scan"
  /\ LET schemaFiles == getSchemaFiles(batch.listing)
     IN batch' = IF Len(schemaFiles) = 0
                   THEN [batch EXCEPT !.pc = "exited", !.exitCode = 0,
                                      !.schemaFiles = schemaFiles]
                 ELSE [batch EXCEPT !.pc = "import", !.schemaFiles = schemaFiles]
  /\ UNCHANGED <<generatorVars, parser, duck, env, race, analytics>>

\* await import('./generate'): the top-level code of generate.ts runs inside
\* the batch process, on the arguments of the batch process
BatchImport ==
  /\ batch.pc = "import"
  /\ Launch(Arguments(batch.argv, NoArgs))
  /\ batch' = [batch EXCEPT !.pc = "inproc"]
  /\ UNCHANGED <<parser, duck, env, race, analytics>>

\* The generator run inside the batch process has ended: a process.exit(1)
\* of it ended the batch process; after its logSuccess generateAll goes on.
BatchAfterImport ==
  /\ batch.pc = "inproc"
  /\ pc = "exited"
  /\ batch' = IF exitCode # 0 THEN [batch EXCEPT !.pc = "exited", !.exitCode = exitCode]
              ELSE [batch EXCEPT !.pc = "loop", !.i = 1]
  /\ UNCHANGED <<generatorVars, parser, duck, env, race, analytics>>

\* execSync(`pnpm generate ${resourceName}`) starts the child process
BatchExec ==
  /\ batch.pc = "loop"
  /\ batch.i <= Len(batch.schemaFiles)
  /\ LET resourceName == basename(batch.schemaFiles[batch.i], ".schema.ts")
     IN /\ Launch(Arguments(resourceName, NoArgs))
        /\ batch' = [batch EXCEPT !.pc = "wait",
                                  !.attempts = Append(@, resourceName)]
  /\ UNCHANGED <<parser, duck, env, race, analytics>>

\* execSync returns, or throws on a non-zero exit code; the throw is caught
BatchReap ==
  /\ batch.pc = "wait"
  /\ pc = "exited"
  /\ LET next == AfterChild(exitCode)
     IN batch' = [batch EXCEPT
                   !.pc = next,
                   !.exitCode = IF next = "exited" THEN 1 ELSE @,
                   !.failed = IF exitCode # 0 THEN Append(@, batch.attempts[batch.i]) ELSE @,
                   !.i = @ + 1]
  /\ UNCHANGED <<generatorVars, parser, duck, env, race, analytics>>

\* logSuccess('All resources generated!'), and the script ends
BatchDone ==
  /\ batch.pc = "loop"
  /\ batch.i > Len(batch.schemaFiles)
  /\ batch' = [batch EXCEPT !.pc = "exited", !.exitCode = 0, !.completed = TRUE]
  /\ UNCHANGED <<generatorVars, parser, duck, env, race, analytics>>

\* A generator run started by the batch process is on its way.
GeneratorRuns == batch.pc \in {"inproc", "wait"}

NextBatch ==
  \/ BatchScan
  \/ BatchImport
  \/ BatchAfterImport
  \/ BatchExec
  \/ BatchReap
  \/ BatchDone
  \/ GeneratorRuns /\ CheckSchema
  \/ GeneratorRuns /\ ParseSchema
  \/ GeneratorRuns /\ WriteArtifact
  \/ GeneratorRuns /\ UpdateSchemasBarrel
  \/ GeneratorRuns /\ UpdateCollectionsBarrel
  \/ GeneratorRuns /\ UpdateRegistry
  \/ GeneratorRuns /\ UpdateDbClient
  \/ GeneratorRuns /\ UpdateNavigation
  \/ GeneratorRuns /\ Succeed

SpecBatch == InitBatch /\ [][NextBatch]_vars

(***************************************************************************)
(* Properties.                                                              *)
(***************************************************************************)
\* The resources of the project whose declaration parses.
Descriptors ==
  {parseResourceSchema(SchemaFiles[r]) :
     r \in {q \in DOMAIN SchemaFiles : parseResourceSchema(SchemaFiles[q]).ok}}

WriteEvents == SelectSeq(events, LAMBDA e : e.op = "write")

HubEvents == SelectSeq(events, LAMBDA e : e.op = "hub")

\* The run is past the parse, with a descriptor.
Parsed == resource.ok

\* The text by which resource res is listed in hub h.
EntryOf(h, res) ==
  CASE h = SchemasBarrelPath -> SchemaExportLine(res.config.name, res.resourceVarName)
    [] h = CollectionsBarrelPath ->
         CollectionExportLine(res.config.name, res.config.pluralName)
    [] h = RegistryPath ->
         RegistryEntry(res.config.name, res.config.pluralName, res.resourceVarName)
    [] h = DbClientPath -> DbClientEntry(res.config.pluralName)
    [] h = NavigationPath ->
         NavItem(res.config.pluralName, IconOrDefault(res.config.icon),
                 res.config.description)

\* The uniqueness probe of hub h for resource res.
Wired(h, content, res) ==
  CASE h = SchemasBarrelPath -> Includes(content, EntryOf(h, res))
    [] h = CollectionsBarrelPath -> Includes(content, EntryOf(h, res))
    [] h = RegistryPath -> Includes(content, RegistryProbe(res.config.name))
    [] h = DbClientPath -> Includes(content, DbClientProbe(res.config.pluralName))
    [] h = NavigationPath -> Includes(content, NavProbe(res.config.pluralName))

\* C1 (as claimed): for every hub file that exists and every valid descriptor,
\* merging the descriptor into the hub a second time leaves the bytes the
\* first merge produced.
C1_WiringIdempotent ==
  \A h \in HubPaths \cap DOMAIN files : \A res \in Descriptors :
    LET once == Wire(h, files, dirs, res).files
        twice == Wire(h, once, dirs, res).files
    IN twice[h] = once[h]

\* C2 (as claimed): a marker-based hub that existed at the start of the run,
\* was not wired for the resource and did not hold its insertion marker is
\* byte-identical at the end of the run.
C2_MarkerMissingUnchanged ==
  (pc = "exited" /\ Parsed) =>
    \A h \in MarkerHubs \cap DOMAIN files0 :
      (~Wired(h, files0[h], resource) /\ ~Includes(files0[h], MarkerOf(h)))
        => files[h] = files0[h]

\* C3: the overwrite gate of writeGenerated.  In every call of the generator
\* loop: an existing destination without force keeps its content, nothing
\* else changes and the result is Skipped; with force, or for a destination
\* that does not exist, the content afterwards is the generated content, the
\* result is Written and the directory of the destination exists.
C3_OverwriteGate ==
  [][pc = "generate" =>
       LET gen == Generators(resource)[genIdx]
           last == events'[Len(events')]
       IN /\ last.target = gen.path
          /\ (existsSync(files, gen.path) /\ ~args.force)
               => (files' = files /\ last.outcome = "skipped")
          /\ (args.force \/ ~existsSync(files, gen.path))
               => /\ existsSync(files', gen.path)
                  /\ files'[gen.path] = gen.content
                  /\ last.outcome = "written"
                  /\ gen.path.dir \in dirs'
                  /\ \A q \in DOMAIN files : q # gen.path => files'[q] = files[q]]_vars

\* C3 witness: under --force, the writer has overwritten an artifact that
\* existed, edited by hand, when the run started.
C3_Witness ==
  /\ args.force
  /\ \E i \in 1..Len(events) :
       /\ events[i].op = "write"
       /\ events[i].outcome = "written"
       /\ existsSync(files0, events[i].target)
       /\ files0[events[i].target] = HandEdited
       /\ files[events[i].target] # HandEdited

\* C4: a second `generate R` without --force, after a plain `generate R`
\* that succeeded on a project whose hubs were ready, modifies no file: every
\* artifact write is skipped and every hub is left as it is.
C4_RerunNoOp ==
  (prev.plain /\ prev.resourceName = args.resourceName /\ ~args.force) =>
    /\ files = files0
    /\ \A i \in 1..Len(events) :
         events[i].outcome = IF events[i].op = "write" THEN "skipped" ELSE "unchanged"

\* C4 witness: such a second run has ended, after six skipped writes and five
\* hubs left unchanged, the registry holding the entry of the first run.
C4_Witness ==
  /\ pc = "exited"
  /\ exitCode = 0
  /\ prev.plain /\ prev.resourceName = args.resourceName
  /\ ~args.force /\ args.only = "@undefined" /\ ~args.skipWiring
  /\ Len(WriteEvents) = 6 /\ Len(HubEvents) = 5
  /\ Includes(files[RegistryPath], EntryOf(RegistryPath, resource))

ArtifactKinds == {"collection", "routes", "form", "columns"}

\* The destination paths of kind k in the full plan of a resource.
PathsOfKind(res, k) ==
  {Generators(res)[i].path : i \in {j \in 1..Len(Generators(res)) : Generators(res)[j].name = k}}

\* The destinations handed to the Safe Writer in a run with --only=k are the
\* paths of kind k of the full plan, each once.
C5_PlanExact ==
  (pc = "exited" /\ Parsed /\ args.only \in ArtifactKinds) =>
    /\ {WriteEvents[i].target : i \in 1..Len(WriteEvents)} = PathsOfKind(resource, args.only)
    /\ Len(WriteEvents) = Cardinality(PathsOfKind(resource, args.only))

C6_EveryResourceListed ==
  (pc = "exited" /\ exitCode = 0 /\ Parsed /\ ~args.skipWiring) =>
    \A h \in HubPaths \cap DOMAIN files0 :
      (h \in MarkerHubs => Includes(files0[h], MarkerOf(h)))
        => Includes(files[h], EntryOf(h, resource))

\* Hub h is as it was when the run started.
Untouched(h) ==
  /\ existsSync(files, h) <=> existsSync(files0, h)
  /\ existsSync(files, h) => files[h] = files0[h]

\* C7: in every state of a run, all write attempts precede the hub updates,
\* the hubs processed so far are a prefix of schemas barrel, collections
\* barrel, registry, db-client, navigation, and no later hub has been touched.
C7_Ordering ==
  /\ events = WriteEvents \o HubEvents
  /\ Len(HubEvents) <= 5
  /\ \A i \in 1..Len(HubEvents) :
       HubEvents[i].target =
         <<SchemasBarrelPath, CollectionsBarrelPath, RegistryPath, DbClientPath,
           NavigationPath>>[i]
  /\ \A h \in HubPaths :
       (\A i \in 1..Len(HubEvents) : HubEvents[i].target # h) => Untouched(h)
  /\ pc = "generate" => HubEvents = <<>>

\* C7 witness: a run that wrote six artifacts and then updated the five hubs.
C7_Witness ==
  /\ pc = "exited"
  /\ Len(WriteEvents) = 6
  /\ Len(HubEvents) = 5
  /\ \A i \in 1..5 : HubEvents[i].outcome \in {"created", "updated"}

\* C8: with --skip-wiring no hub file is created or modified and no hub
\* updater is called.
C8_SkipWiring ==
  args.skipWiring => (HubEvents = <<>> /\ \A h \in HubPaths : Untouched(h))

\* C8 witness: a run with --skip-wiring has ended with exit code 0 after it
\* wrote an artifact, on a project where the registry is not wired for it.
C8_Witness ==
  /\ pc = "exited"
  /\ exitCode = 0
  /\ args.skipWiring
  /\ \E i \in 1..Len(events) : events[i].outcome = "written"
  /\ existsSync(files, RegistryPath)
  /\ ~Wired(RegistryPath, files[RegistryPath], resource)

\* The run fails before planning: no resource name, no declaration file, or
\* a declaration on which extraction throws.
FailsBeforePlanning ==
  \/ args.resourceName = "@none"
  \/ args.resourceName \in MissingSchemas
  \/ /\ args.resourceName \in DOMAIN SchemaFiles
     /\ LET f == SchemaFiles[args.resourceName]
        IN \/ f.calls = 0
           \/ f.nargs < 2
           \/ ~f.configObj
           \/ ~f.shapeObj
           \/ f.name = Undefined

\* C9: a run that fails before planning writes nothing at any point, and
\* exits with code 1.
C9_FailureBeforePlanning ==
  (runs > 0 /\ FailsBeforePlanning) =>
    /\ files = files0
    /\ events = <<>>
    /\ pc = "exited" => exitCode = 1
    /\ pc \in {"generateResource", "parse", "exited"}

\* C9 witness: the run for a declaration without a name has exited.
C9_Witness ==
  /\ pc = "exited"
  /\ exitCode = 1
  /\ args.resourceName = "noname"

\* C10 (as claimed): a run whose declaration was found and parsed exits with
\* code 0, and a run exits with a code other than 0 only when it fails before
\* planning.
C10_ExitCode ==
  pc = "exited" => (exitCode = 0 <=> ~FailsBeforePlanning)

\* C13 (as claimed): in a run whose --only value is given and is none of the
\* known artifact kinds, the empty value of `--only=` included, no artifact
\* is handed to the Safe Writer.
C13_UnknownOnlyEmptyPlan ==
  (Parsed /\ args.only \notin ArtifactKinds \cup {"@undefined"}) => WriteEvents = <<>>

C19_InsertionPosition ==
  (pc = "exited" /\ exitCode = 0 /\ Parsed /\ ~args.skipWiring) =>
    \A h \in HubPaths \cap DOMAIN files0 :
      LET marker == IF h = SchemasBarrelPath
                      THEN <<"// === RESOURCE EXPORTS (auto-generated) ===">>
                    ELSE IF h = CollectionsBarrelPath
                      THEN <<"// === COLLECTION EXPORTS (auto-generated) ===">>
                    ELSE MarkerOf(h)
      IN (~Wired(h, files0[h], resource) /\ Includes(files0[h], marker))
           => Includes(files[h], marker \o NL \o EntryOf(h, resource))

\* C20 (as claimed): after a run that wired a resource, every hub that did
\* not exist when the run started exists and holds the entry of the resource.
C20_HubCreation ==
  (pc = "exited" /\ exitCode = 0 /\ Parsed /\ ~args.skipWiring) =>
    \A h \in HubPaths \ DOMAIN files0 :
      existsSync(files, h) /\ Includes(files[h], EntryOf(h, resource))

\* C21 (as claimed): a run that parsed its declaration and does not skip the
\* wiring ends with every one of the five hubs processed, with the artifacts
\* it wrote in place and with exit code 0, whatever happened at a hub (file
\* or directory absent, marker absent, write error).
C21_HubIssuesNonFatal ==
  (pc = "exited" /\ Parsed /\ ~args.skipWiring) =>
    /\ exitCode = 0
    /\ {HubEvents[i].target : i \in 1..Len(HubEvents)} = HubPaths
    /\ \A i \in 1..Len(WriteEvents) :
         WriteEvents[i].outcome = "written" => existsSync(files, WriteEvents[i].target)

\* C25 (as claimed): in the merge of a resource into the registry, the
\* db-client or the navigation, the import line (the schema import, the
\* collection import, the icon of the lucide-react import) and the entry go
\* together: the import line is inserted only if the entry is inserted too,
\* and an inserted entry has its import line in the hub.
C25_TwoPartInsertion ==
  Parsed =>
    \A h \in MarkerHubs \cap DOMAIN files0 :
      LET name == resource.config.name
          pluralName == resource.config.pluralName
          import ==
            CASE h = RegistryPath -> RegistryImportLine(name, resource.resourceVarName)
              [] h = DbClientPath -> CollectionImportLine(pluralName)
              [] h = NavigationPath ->
                   Indent(1) \o IconOrDefault(resource.config.icon) \o <<",">>
          entry ==
            CASE h = RegistryPath -> RegistryEntry(name, pluralName, resource.resourceVarName)
              [] h = DbClientPath -> DbClientEntry(pluralName)
              [] h = NavigationPath ->
                   NavItem(pluralName, IconOrDefault(resource.config.icon),
                           resource.config.description)
          inserted(x) == Includes(files[h], x) /\ ~Includes(files0[h], x)
      IN /\ inserted(import) => inserted(entry)
         /\ inserted(entry) => Includes(files[h], import)

\* The generators the loop of the run hands to the Safe Writer: those that
\* --only does not skip, in declaration order.
Plan == SelectSeq(Generators(resource), LAMBDA g : Selected(args.only, g))

\* C22 (as claimed): a run in which the write of an artifact failed (the
\* file is not writable) still attempts every artifact of its plan, in
\* declaration order, and is not aborted: it goes on to the wiring and ends
\* with the failure reported.
C22_WriteFailureIsolated ==
  (/\ pc = "exited" /\ Parsed /\ env.nulls = {}
   /\ \E i \in 1..Len(WriteEvents) : WriteEvents[i].outcome = "threw")
    => /\ [i \in 1..Len(WriteEvents) |-> WriteEvents[i].target]
            = [i \in 1..Len(Plan) |-> Plan[i].path]
       /\ Len(HubEvents) = 5

\* C23 (as claimed): a run in which a content producer returned null has
\* written no file for that artifact, has raised no error, and has gone on
\* with the remaining artifacts and the wiring.
C23_NullProducerSkipped ==
  (pc = "exited" /\ Parsed /\ env.nulls # {}) =>
    /\ exitCode = 0
    /\ \A i \in 1..Len(WriteEvents) : WriteEvents[i].outcome # "threw"
    /\ \A i \in 1..Len(Plan) :
         Plan[i].name \in env.nulls =>
           (existsSync(files, Plan[i].path) =>
              existsSync(files0, Plan[i].path) /\ files[Plan[i].path] = files0[Plan[i].path])
    /\ Len(WriteEvents) = Len(Plan)
    /\ Len(HubEvents) = 5

\* A run for a resource that ended after a plain run for another resource
\* with the same plural name, in an environment without faults.
SecondOfPlural ==
  /\ pc = "exited"
  /\ Parsed
  /\ env = NoFaults
  /\ prev.plain
  /\ prev.resourceName # args.resourceName
  /\ parseResourceSchema(SchemaFiles[prev.resourceName]).config.pluralName
       = resource.config.pluralName

C11_BatchCoverage ==
  (batch.pc = "exited" /\ batch.schemaFiles # <<>>) =>
    batch.attempts = [k \in 1..Len(batch.schemaFiles) |-> batch.schemaFiles[k][1]]

\* C12: the failure of a child is caught and logged, and the loop goes on
\* with the next file; the return of execSync changes no file; a batch run
\* in which a child failed ends only with every declaration file attempted
\* and completion reported, and until then it is never stuck: it waits for a
\* child that runs, or it can take its next step.
C12_BatchIsolation ==
  /\ [](batch.failed # <<>> =>
          \/ batch.pc = "exited"
          \/ batch.pc = "wait" /\ pc # "exited"
          \/ ENABLED (BatchExec \/ BatchReap \/ BatchDone))
  /\ [][/\ (batch.pc = "wait" /\ batch' # batch) =>
            /\ files' = files
            /\ dirs' = dirs
            /\ exitCode # 0 =>
                 /\ batch'.failed = Append(batch.failed, batch.attempts[batch.i])
                 /\ batch'.pc = "loop"
                 /\ batch'.i = batch.i + 1
        /\ (batch.failed # <<>> /\ batch'.pc = "exited") =>
             /\ batch'.completed
             /\ batch'.exitCode = 0
             /\ batch'.attempts =
                  [k \in 1..Len(batch.schemaFiles) |-> batch.schemaFiles[k][1]]]_vars

\* C12 witness: the batch has reported completion after its first child
\* failed and its second child, for order, ended with exit code 0; the
\* artifacts and the registry entry of order are in place.
C12_Witness ==
  /\ batch.pc = "exited"
  /\ batch.completed
  /\ Len(batch.attempts) = 2
  /\ batch.failed = <<batch.attempts[1]>>
  /\ batch.attempts[2] = "order"
  /\ exitCode = 0
  /\ \A i \in 1..6 : existsSync(files, Generators(resource)[i].path)
  /\ existsSync(files, RegistryPath)
  /\ Includes(files[RegistryPath], EntryOf(RegistryPath, resource))

(***************************************************************************)
(* Descriptor extraction, in steps: parseConfigObject and parseShapeObject  *)
(* on the two object literals of a defineResource call.  A node of the      *)
(* syntax tree is its kind, its source text, its literal text and the value *)
(* the expression has when the declaration file is run; the literal of an   *)
(* array is the sequence of its element nodes.                              *)
(***************************************************************************)
\* The most members in the field-map object literal.
MaxFields == 3

Node(kind, text, literal, runtime) ==
  [kind |-> kind, text |-> text, literal |-> literal, runtime |-> runtime]

\* A member of an object literal; only a PropertyAssignment has an initializer.
Member(kind, name, init) == [kind |-> kind, name |-> name, init |-> init]

\* A call expression below a node: the name its callee ends in, and its
\* arguments (given for the calls of .meta).
Call(name, arguments) == [name |-> name, args |-> arguments]

\* A faulty variant: an evaluator without the fallback to the source text
parseValue_NoFallback(node) ==
  IF node.kind = "StringLiteral" THEN node.literal ELSE Undefined

\* parseValue: the literal evaluator.  Strings, numbers and booleans give
\* their value, an array the values of its elements in order, an object
\* literal the values of its property assignments by name (a name assigned
\* twice keeps its place and takes the later value; a shorthand property or
\* a spread gives nothing); any other expression gives its source text.
\* The value of an array is written @array v1 , v2 , and the value of an
\* object @object name : v , name : v ,
RECURSIVE parseValue(_)
parseValue(node) ==
  LET RECURSIVE each(_, _)
      each(nodes, k) ==
        IF k > Len(nodes) THEN <<>>
        ELSE parseValue(nodes[k]) \o <<",">> \o each(nodes, k + 1)
      RECURSIVE assign(_, _, _)
      assign(props, k, obj) ==
        IF k > Len(props) THEN obj
        ELSE IF props[k].kind # "PropertyAssignment" THEN assign(props, k + 1, obj)
        ELSE LET at == {j \in 1..Len(obj) : obj[j].name = props[k].name}
                 v == parseValue(props[k].init)
             IN assign(props, k + 1,
                       IF at = {} THEN Append(obj, [name |-> props[k].name, value |-> v])
                       ELSE [j \in 1..Len(obj) |-> IF j \in at THEN [obj[j] EXCEPT !.value = v]
                                                   ELSE obj[j]])
      RECURSIVE flat(_, _)
      flat(obj, k) ==
        IF k > Len(obj) THEN <<>>
        ELSE <<obj[k].name, ":">> \o obj[k].value \o <<",">> \o flat(obj, k + 1)
  IN CASE node.kind = "StringLiteral" -> node.literal
       [] node.kind = "NumericLiteral" -> <<"@number">> \o node.literal
       [] node.kind \in {"TrueKeyword", "FalseKeyword"} -> <<"@boolean">> \o node.text
       [] node.kind = "ArrayLiteralExpression" -> <<"@array">> \o each(node.literal, 1)
       [] node.kind = "ObjectLiteralExpression" ->
            <<"@object">> \o flat(assign(node.literal, 1, <<>>), 1)
       [] OTHER -> node.text

\* The initializers of `name` in the declaration files of the model: the
\* string literals 'order' and '', a number, a boolean, an array, the
\* identifier RESOURCE_NAME (a constant that holds 'order'), a template
\* string without substitution (BQ stands for the back quote) and null.
NameInitializers ==
  LET order == Node("StringLiteral", <<"'", "order", "'">>, <<"order">>, <<"order">>)
  IN {order,
      Node("StringLiteral", <<"'", "'">>, <<>>, <<>>),
      Node("NumericLiteral", <<"42">>, <<"42">>, <<"@number", "42">>),
      Node("TrueKeyword", <<"true">>, <<>>, <<"@boolean", "true">>),
      Node("ArrayLiteralExpression", <<"[", "'", "order", "'", "]">>, <<order>>,
           <<"@array", "order", ",">>),
      Node("Identifier", <<"RESOURCE_NAME">>, <<>>, <<"order">>),
      Node("NoSubstitutionTemplateLiteral", <<"BQ", "order", "BQ">>, <<"order">>, <<"order">>),
      Node("NullKeyword", <<"null">>, <<>>, Undefined)}

\* The initializers of `pluralName`: the string literals 'people' and '', and
\* the identifier PEOPLE (a constant that holds 'people').
PluralInitializers ==
  {Node("StringLiteral", <<"'", "people", "'">>, <<"people">>, <<"people">>),
   Node("StringLiteral", <<"'", "'">>, <<>>, <<>>),
   Node("Identifier", <<"PEOPLE">>, <<>>, <<"people">>)}

\* An initializer of `search`, with every shape the evaluator tells apart:
\*   { enabled: true, searchableFields: ['title', SEARCH_FIELD, ...extraFields],
\*     weight: 5, limit: -1, ...defaults, onSelect, weight: 10 }
SearchInitializer ==
  LET lit(kind, tok) == Node(kind, <<tok>>, <<tok>>, <<>>)
      src(kind, text) == Node(kind, text, <<>>, <<>>)
      fields == Node("ArrayLiteralExpression",
                     <<"[", "'", "title", "'", ", ", "SEARCH_FIELD", ", ", "...", "extraFields",
                       "]">>,
                     <<Node("StringLiteral", <<"'", "title", "'">>, <<"title">>, <<>>),
                       src("Identifier", <<"SEARCH_FIELD">>),
                       src("SpreadElement", <<"...", "extraFields">>)>>,
                     <<>>)
  IN Node("ObjectLiteralExpression", <<"{ enabled: true, ... }">>,
          <<Member("PropertyAssignment", "enabled", lit("TrueKeyword", "true")),
            Member("PropertyAssignment", "searchableFields", fields),
            Member("PropertyAssignment", "weight", lit("NumericLiteral", "5")),
            Member("PropertyAssignment", "limit", src("PrefixUnaryExpression", <<"-", "1">>)),
            Member("SpreadAssignment", "defaults", src("Identifier", <<"defaults">>)),
            Member("ShorthandPropertyAssignment", "onSelect", src("Identifier", <<"onSelect">>)),
            Member("PropertyAssignment", "weight", lit("NumericLiteral", "10"))>>,
          <<>>)

\* The configuration object literals: `name` absent, assigned, or given in
\* shorthand ({ name }, a variable that holds 'order'), then `pluralName`
\* absent or assigned; and name: 'order' followed by `search`, assigned an
\* object literal or the call of a function.
ConfigLiterals ==
  LET names == {<<>>, <<Member("ShorthandPropertyAssignment", "name",
                               Node("Identifier", <<"name">>, <<>>, <<"order">>))>>}
                 \cup {<<Member("PropertyAssignment", "name", n)>> : n \in NameInitializers}
      plurals == {<<>>} \cup {<<Member("PropertyAssignment", "pluralName", n)>> :
                                n \in PluralInitializers}
      order == Node("StringLiteral", <<"'", "order", "'">>, <<"order">>, <<"order">>)
      searches == {SearchInitializer,
                   Node("CallExpression", <<"searchConfig", "(", "'", "order", "'", ")">>,
                        <<Call("searchConfig", <<order>>)>>, <<>>)}
  IN {n \o q : n \in names, q \in plurals}
       \cup {<<Member("PropertyAssignment", "name", order),
               Member("PropertyAssignment", "search", n)>> : n \in searches}

\* An object without properties: {}
EmptyObject == <<"@object">>

\* The members a field-map object literal is made of: four fields declared
\* as `name: expression`, a field in shorthand and a spread.  The literal of
\* a call expression is the sequence of the call expressions of its subtree
\* in the order of the traversal, itself first; its runtime is the metadata
\* the field carries when the declaration file is run.
\*   title: z.string().meta({ label: 'Title' })
\*   total: z.number().optional()
\*   status: orderStatusEnum.nullable()
\*   lines: z.array(z.object({ sku: z.string().meta({ label: 'SKU', width: -1 }) }))
ShapeMembers ==
  LET label(l) == Member("PropertyAssignment", "label",
                         Node("StringLiteral", <<"'", l, "'">>, <<l>>, <<l>>))
      title == Node("ObjectLiteralExpression", <<"{ label: '", "Title", "' }">>,
                    <<label("Title")>>, <<"@object", "label", ":", "Title", ",">>)
      sku == Node("ObjectLiteralExpression", <<"{ label: '", "SKU", "', width: -1 }">>,
                  <<label("SKU"),
                    Member("PropertyAssignment", "width",
                           Node("PrefixUnaryExpression", <<"-", "1">>, <<>>, <<>>))>>,
                  <<>>)
  IN {Member("PropertyAssignment", "title",
             Node("CallExpression", <<"z.", "string", "()", ".meta(", "{ label: 'Title' }", ")">>,
                  <<Call("meta", <<title>>), Call("string", <<>>)>>, title.runtime)),
      Member("PropertyAssignment", "total",
             Node("CallExpression", <<"z.", "number", "()", ".optional()">>,
                  <<Call("optional", <<>>), Call("number", <<>>)>>, EmptyObject)),
      Member("PropertyAssignment", "status",
             Node("CallExpression", <<"orderStatusEnum", ".nullable()">>,
                  <<Call("nullable", <<>>)>>, EmptyObject)),
      Member("PropertyAssignment", "lines",
             Node("CallExpression",
                  <<"z.", "array", "(", "z.", "object", "({ sku: ", "z.", "string", "()", ".meta(",
                    "{ label: 'SKU', width: -1 }", ")", " }))">>,
                  <<Call("array", <<>>), Call("object", <<>>), Call("meta", <<sku>>),
                    Call("string", <<>>)>>,
                  EmptyObject)),
      Member("ShorthandPropertyAssignment", "notes",
             Node("Identifier", <<"notes">>, <<>>, <<>>)),
      Member("SpreadAssignment", "auditFields",
             Node("Identifier", <<"auditFields">>, <<>>, <<>>))}

\* node.getDescendantsOfKind(SyntaxKind.CallExpression): the call
\* expressions below the node, in the order of the traversal; the node is
\* not one of its descendants
getDescendantsOfKind(node) ==
  IF node.kind = "CallExpression" THEN Tail(node.literal) ELSE <<>>

\* extractMeta: the first argument of the first call of .meta that is found,
\* evaluated if it is an object literal; else {}
extractMeta(node) ==
  LET metaCalls == SelectSeq(getDescendantsOfKind(node), LAMBDA call : call.name = "meta")
  IN IF metaCalls = <<>> THEN EmptyObject
     ELSE IF Len(metaCalls[1].args) = 0 THEN EmptyObject
     ELSE IF metaCalls[1].args[1].kind # "ObjectLiteralExpression" THEN EmptyObject
     ELSE parseValue(metaCalls[1].args[1])

\* The declaration files: the defineResource calls of the file in the order
\* of the source, each the sequence of its arguments, each argument an
\* object literal.  One call with a configuration and a field map; or no
\* call, a call with one or with three arguments, or two calls.
SourceFiles ==
  LET order == <<Member("PropertyAssignment", "name",
                        Node("StringLiteral", <<"'", "order", "'">>, <<"order">>, <<"order">>))>>
      border == <<Member("PropertyAssignment", "name",
                         Node("StringLiteral", <<"'", "b", "order", "'">>, <<"b", "order">>,
                              <<"b", "order">>))>>
      shape == <<CHOOSE m \in ShapeMembers : m.name = "title">>
  IN {<< <<c, sh>> >> : c \in ConfigLiterals, sh \in DistinctSeqs(ShapeMembers, MaxFields)}
       \cup {<<>>, << <<order>> >>, << <<order, shape, shape>> >>,
              << <<order, shape>>, <<border, shape>> >>}

\* parseZodField: the name, the word after the first `z.` of the text (or
\* 'unknown'), whether the text holds .optional() or .nullable(), and the
\* metadata
parseZodField(name, node) ==
  LET text == node.text
      z == IndexOf(text, <<"z.">>)
  IN [name |-> name,
      zodType |-> IF z # -1 /\ z + 2 <= Len(text) THEN text[z + 2] ELSE "unknown",
      isOptional |-> Includes(text, <<".optional()">>) \/ Includes(text, <<".nullable()">>),
      meta |-> extractMeta(node)]

\* A faulty variant: a field list that grows at its head
push_Front(fields, field) == <<field>> \o fields

\* fields.push(field)
push(fields, field) == Append(fields, field)

\* pluralName of the object defineResource returns when the declaration file
\* is run: config.pluralName ?? `${config.name}s`
defineResource(config) ==
  IF config.pluralName = Undefined THEN config.name \o <<"s">> ELSE config.pluralName

InitParse ==
  /\ batch = Off
  /\ duck = Off
  /\ env = NoFaults
  /\ race = Off
  /\ analytics = Off
  /\ files = InitialFiles([h \in HubPaths |-> "absent"], {})
  /\ dirs = InitialDirs(files)
  /\ pc = "off"
  /\ args = NoArgs
  /\ resource = NoResource
  /\ genIdx = 0
  /\ exitCode = Running
  /\ events = <<>>
  /\ runs = 0
  /\ files0 = files
  /\ prev = NoPrev
  /\ \E calls \in SourceFiles :
       parser = [pc |-> "find", calls |-> calls, configArg |-> <<>>, shapeArg |-> <<>>,
                 i |-> 1, raw |-> [k \in {"name", "pluralName", "search"} |-> Undefined],
                 config |-> [ok |-> FALSE, error |-> ""], fields |-> <<>>]

\* parseResourceSchema up to parseConfigObject: the first defineResource call
\* of the file is taken; no call, or a call with fewer than two arguments,
\* throws
FindCall ==
  /\ parser.pc = "find"
  /\ LET defineResourceCall == IF parser.calls = <<>> THEN <<>> ELSE parser.calls[1]
     IN parser' = IF parser.calls = <<>> \/ Len(defineResourceCall) < 2
                    THEN [parser EXCEPT !.pc = "threw"]
                  ELSE [parser EXCEPT !.pc = "config",
                                      !.configArg = defineResourceCall[1],
                                      !.shapeArg = defineResourceCall[2]]
  /\ UNCHANGED <<generatorVars, batch, duck, env, race, analytics>>

\* parseConfigObject, one turn of its loop: config[name] = parseValue(init)
ParseConfigProp ==
  /\ parser.pc = "config"
  /\ parser.i <= Len(parser.configArg)
  /\ LET prop == parser.configArg[parser.i]
     IN parser' = [parser EXCEPT
                     !.i = @ + 1,
                     !.raw = IF prop.kind = "PropertyAssignment"
                               THEN [@ EXCEPT ![prop.name] = parseValue(prop.init)]
                             ELSE @]
  /\ UNCHANGED <<generatorVars, batch, duck, env, race, analytics>>

\* parseConfigObject after its loop: the name is required, the plural derived
CheckConfig ==
  /\ parser.pc = "config"
  /\ parser.i > Len(parser.configArg)
  /\ LET config == parseConfigObject(
                     SchemaFile(1, 2, TRUE, TRUE, Undefined, parser.raw.name,
                                parser.raw.pluralName, Undefined, Undefined))
     IN parser' = [parser EXCEPT !.config = config,
                                 !.pc = IF config.ok THEN "shape" ELSE "threw",
                                 !.i = 1]
  /\ UNCHANGED <<generatorVars, batch, duck, env, race, analytics>>

\* parseShapeObject, one turn of its loop
ParseShapeProp ==
  /\ parser.pc = "shape"
  /\ parser.i <= Len(parser.shapeArg)
  /\ LET prop == parser.shapeArg[parser.i]
     IN parser' = [parser EXCEPT
                     !.i = @ + 1,
                     !.fields = IF prop.kind = "PropertyAssignment"
                                  THEN push(@, parseZodField(prop.name, prop.init))
                                ELSE @]
  /\ UNCHANGED <<generatorVars, batch, duck, env, race, analytics>>

\* parseResourceSchema returns the descriptor
ParseReturn ==
  /\ parser.pc = "shape"
  /\ parser.i > Len(parser.shapeArg)
  /\ parser' = [parser EXCEPT !.pc = "returned"]
  /\ UNCHANGED <<generatorVars, batch, duck, env, race, analytics>>

NextParse == FindCall \/ ParseConfigProp \/ CheckConfig \/ ParseShapeProp \/ ParseReturn

SpecParse == InitParse /\ [][NextParse]_vars

(***************************************************************************)
(* Properties of the extraction.                                            *)
(***************************************************************************)
\* C24 (as claimed): a descriptor is extracted only from a file that holds
\* exactly one defineResource call, and that call has exactly two arguments;
\* with no call or with more than one the extraction fails.
C24_FactoryCallUnique ==
  parser.pc = "returned" => (Len(parser.calls) = 1 /\ Len(parser.calls[1]) = 2)

\* C14 (as claimed): a descriptor is extracted only if the configuration
\* assigns `name` a string literal (a template string without substitution
\* counted as one) whose text is not empty.
C14_NameInvariant ==
  parser.config.ok =>
    \E k \in 1..Len(parser.configArg) :
      /\ parser.configArg[k].kind = "PropertyAssignment"
      /\ parser.configArg[k].name = "name"
      /\ parser.configArg[k].init.kind \in {"StringLiteral", "NoSubstitutionTemplateLiteral"}
      /\ parser.configArg[k].init.literal # <<>>

\* C15 (as claimed): the pluralName of an extracted descriptor is name + "s"
\* when the configuration supplies none, the supplied string when it
\* supplies one, and in both cases the pluralName that defineResource
\* derives from the same configuration when the declaration file is run.
C15_PluralDerivation ==
  parser.config.ok =>
    LET at(k) == {j \in 1..Len(parser.configArg) : parser.configArg[j].name = k}
        runtime(k) == IF at(k) = {} THEN Undefined
                      ELSE parser.configArg[MaxOf(at(k))].init.runtime
    IN /\ at("pluralName") = {} => parser.config.pluralName = parser.config.name \o <<"s">>
       /\ (at("pluralName") # {} /\ IsString(runtime("pluralName")))
            => parser.config.pluralName = runtime("pluralName")
       /\ parser.config.pluralName =
            defineResource([name |-> runtime("name"), pluralName |-> runtime("pluralName")])

C26_FieldMetadata ==
  parser.pc \in {"shape", "returned"} =>
    LET seen == SubSeq(parser.shapeArg, 1, parser.i - 1)
        declared == SelectSeq(seen, LAMBDA m : m.kind = "PropertyAssignment")
        terminal(node) == node.literal[1]
        own(node) == IF /\ terminal(node).name = "meta"
                        /\ Len(terminal(node).args) = 1
                        /\ terminal(node).args[1].kind = "ObjectLiteralExpression"
                       THEN parseValue(terminal(node).args[1])
                     ELSE EmptyObject
    IN \A k \in 1..Len(parser.fields) :
         k <= Len(declared) => parser.fields[k].meta = own(declared[k].init)

MaxCallers == 3

MaxCalls == 4

\* A faulty variant: a getDuckDB that never returns the pending promise
ReusesPromise_Never(initPromise) == FALSE

\* if (initPromise) return initPromise
ReusesPromise(initPromise) == initPromise # "null"

\* The module as loaded: db = null, initPromise = null, nobody has called.
InitDuck ==
  /\ batch = Off
  /\ parser = Off
  /\ env = NoFaults
  /\ race = Off
  /\ analytics = Off
  /\ files = InitialFiles([h \in HubPaths |-> "absent"], {})
  /\ dirs = InitialDirs(files)
  /\ pc = "off"
  /\ args = NoArgs
  /\ resource = NoResource
  /\ genIdx = 0
  /\ exitCode = Running
  /\ events = <<>>
  /\ runs = 0
  /\ files0 = files
  /\ prev = NoPrev
  /\ duck = [db |-> 0, initPromise |-> "null", value |-> 0, inits |-> 0, instances |-> 0,
             initPc |-> "none", calls |-> 0,
             caller |-> [c \in 1..MaxCallers |-> "idle"],
             got |-> [c \in 1..MaxCallers |-> 0]]

\* getDuckDB() up to its return or its await: db is returned if it is set,
\* else the promise of the initialization on its way, else initializeDuckDB
\* is started (it runs up to its first await) and the caller awaits it
GetDuckDB(c) ==
  /\ duck.caller[c] \in {"idle", "resolved", "rejected"}
  /\ duck.calls < MaxCalls
  /\ duck' =
       IF duck.db # 0
         THEN [duck EXCEPT !.calls = @ + 1, !.caller[c] = "resolved", !.got[c] = duck.db]
       ELSE IF ReusesPromise(duck.initPromise)
         THEN [duck EXCEPT !.calls = @ + 1, !.caller[c] = "waiting"]
       ELSE [duck EXCEPT !.calls = @ + 1, !.caller[c] = "first", !.initPromise = "pending",
                         !.inits = @ + 1, !.initPc = "selectBundle"]
  /\ UNCHANGED <<generatorVars, batch, parser, env, race, analytics>>

\* initializeDuckDB after `await duckdb.selectBundle(...)`: the worker and the
\* instance are created, up to `await instance.instantiate(...)`; or the
\* awaited promise rejects and so does initPromise
SelectBundle ==
  /\ duck.initPc = "selectBundle"
  /\ \E ok \in BOOLEAN :
       duck' = IF ok THEN [duck EXCEPT !.initPc = "instantiate", !.instances = @ + 1]
               ELSE [duck EXCEPT !.initPc = "failed", !.initPromise = "rejected"]
  /\ UNCHANGED <<generatorVars, batch, parser, env, race, analytics>>

\* initializeDuckDB after `await instance.instantiate(...)`: it returns the
\* instance, which fulfils initPromise; or it rejects
Instantiate ==
  /\ duck.initPc = "instantiate"
  /\ \E ok \in BOOLEAN :
       duck' = IF ok THEN [duck EXCEPT !.initPc = "done", !.initPromise = "fulfilled",
                                       !.value = duck.instances]
               ELSE [duck EXCEPT !.initPc = "failed", !.initPromise = "rejected"]
  /\ UNCHANGED <<generatorVars, batch, parser, env, race, analytics>>

\* A call goes on once initPromise is settled: the caller that started the
\* initialization assigns db and returns it (db = await initPromise; return
\* db); a caller that was handed initPromise gets its value; both reject if
\* it rejected
Settle(c) ==
  /\ duck.caller[c] \in {"first", "waiting"}
  /\ duck.initPromise \in {"fulfilled", "rejected"}
  /\ duck' =
       IF duck.initPromise = "rejected" THEN [duck EXCEPT !.caller[c] = "rejected"]
       ELSE IF duck.caller[c] = "first"
         THEN [duck EXCEPT !.db = duck.value, !.caller[c] = "resolved", !.got[c] = duck.value]
       ELSE [duck EXCEPT !.caller[c] = "resolved", !.got[c] = duck.value]
  /\ UNCHANGED <<generatorVars, batch, parser, env, race, analytics>>

NextDuck ==
  \/ \E c \in 1..MaxCallers : GetDuckDB(c)
  \/ SelectBundle
  \/ Instantiate
  \/ \E c \in 1..MaxCallers : Settle(c)

SpecDuck == InitDuck /\ [][NextDuck]_vars

\* C17: initializeDuckDB is started at most once, one instance at most is
\* created, and all calls of getDuckDB that resolved, whenever they were
\* made, yielded that one instance.
C17_Singleton ==
  /\ duck.inits <= 1
  /\ duck.instances <= 1
  /\ \A c \in 1..MaxCallers :
       duck.caller[c] = "resolved" => (duck.got[c] # 0 /\ duck.got[c] = duck.value)
  /\ duck.db # 0 => duck.db = duck.value

\* C17 witness: after one initialization db is set and two calls have
\* resolved with the instance, while a third caller, which called before db
\* was set and was handed the pending promise, still waits.
C17_Witness ==
  /\ duck.inits = 1
  /\ duck.db = 1
  /\ \E a \in 1..MaxCallers, b \in 1..MaxCallers, c \in 1..MaxCallers :
       /\ a # b
       /\ duck.caller[a] = "resolved" /\ duck.got[a] = 1
       /\ duck.caller[b] = "resolved" /\ duck.got[b] = 1
       /\ duck.caller[c] = "waiting"

(***************************************************************************)
(* Two generator processes on one project directory: `generate order` and  *)
(* `generate widget` started side by side.  Each system call of a process   *)
(* is a step; a hub updater reads the hub with one call and writes it with  *)
(* another, and the calls of the other process fall in between.             *)
(***************************************************************************)
\* The two invocations and their <resource-name> arguments.
Invocations == <<"order", "widget">>

\* A hub that existsSync did not find.
Absent == <<"@absent">>

\* A faulty variant: a read that yields an empty text
readFileSync_Empty(fl, path) == <<>>

\* readFileSync(path, 'utf-8')
readFileSync(fl, path) == fl[path]

InitRace ==
  /\ batch = Off
  /\ parser = Off
  /\ duck = Off
  /\ env = NoFaults
  /\ analytics = Off
  /\ \E barrel \in {"pristine", "absent"} :
       files = InitialFiles([h \in HubPaths |-> IF h = SchemasBarrelPath THEN barrel
                                                ELSE "pristine"], {})
  /\ dirs = InitialDirs(files)
  /\ pc = "off"
  /\ args = NoArgs
  /\ resource = NoResource
  /\ genIdx = 0
  /\ exitCode = Running
  /\ events = <<>>
  /\ runs = 0
  /\ files0 = files
  /\ prev = NoPrev
  /\ race = [pc |-> [p \in DOMAIN Invocations |-> "start"],
             hub |-> [p \in DOMAIN Invocations |-> 1],
             content |-> [p \in DOMAIN Invocations |-> Absent],
             exitCode |-> [p \in DOMAIN Invocations |-> Running],
             stale |-> [p \in DOMAIN Invocations |-> FALSE],
             overtaken |-> [h \in HubPaths |-> {}]]

\* The descriptor process p extracts from its declaration file.
ResourceOf(p) == parseResourceSchema(SchemaFiles[Invocations[p]])

\* generateResource of process p up to the wiring: the artifacts are
\* written, each unless it exists (their paths are those of no other
\* resource)
RaceGenerate(p) ==
  /\ race.pc[p] = "start"
  /\ LET gens == Generators(ResourceOf(p))
         RECURSIVE written(_, _, _)
         written(fl, dr, i) ==
           IF i > Len(gens) THEN [files |-> fl, dirs |-> dr]
           ELSE LET out == writeGenerated(fl, dr, env, gens[i].path, gens[i].content, FALSE)
                IN written(out.files, out.dirs, i + 1)
         out == written(files, dirs, 1)
     IN files' = out.files /\ dirs' = out.dirs
  /\ race' = [race EXCEPT !.pc[p] = "read"]
  /\ UNCHANGED <<pc, args, resource, genIdx, exitCode, events, runs, files0, prev,
                 batch, parser, duck, env, analytics>>

\* A hub updater of process p up to its write: existsSync(path) and, if the
\* hub exists, const content = readFileSync(path, 'utf-8')
RaceRead(p) ==
  /\ race.pc[p] = "read"
  /\ LET h == HubOrder[race.hub[p]]
     IN race' = [race EXCEPT
                   !.pc[p] = "write",
                   !.content[p] = IF existsSync(files, h) THEN readFileSync(files, h)
                                  ELSE Absent,
                   !.stale[p] = FALSE]
  /\ UNCHANGED <<generatorVars, batch, parser, duck, env, analytics>>

\* The rest of the hub updater of process p: the new text is computed from
\* the text that was read and written with writeFileSync, unless the probe
\* found the resource or the hub is absent and not a barrel; then the next
\* updater, or the end of the run.  (stale: the hub was written since the
\* process read it; overtaken: the processes whose write of the hub was
\* followed by a write of the text of an earlier read.)
RaceWrite(p) ==
  /\ race.pc[p] = "write"
  /\ LET h == HubOrder[race.hub[p]]
         seen == IF race.content[p] = Absent
                   THEN [q \in DOMAIN files \ {h} |-> files[q]]
                 ELSE writeFileSync(files, h, race.content[p])
         out == Wire(h, seen, dirs, ResourceOf(p))
         last == race.hub[p] = Len(HubOrder)
         q == 3 - p
     IN /\ files' = IF out.wrote THEN writeFileSync(files, h, out.files[h]) ELSE files
        /\ race' = [race EXCEPT
                      !.pc[p] = IF out.threw \/ last THEN "exited" ELSE "read",
                      !.exitCode[p] = IF out.threw THEN 1 ELSE IF last THEN 0 ELSE @,
                      !.hub[p] = IF out.threw \/ last THEN @ ELSE @ + 1,
                      !.stale[q] = @ \/ (out.wrote /\ race.pc[q] = "write"
                                                    /\ race.hub[q] = race.hub[p]),
                      !.overtaken[h] = IF out.wrote /\ race.stale[p] THEN @ \cup {q} ELSE @]
  /\ UNCHANGED <<dirs, pc, args, resource, genIdx, exitCode, events, runs, files0, prev,
                 batch, parser, duck, env, analytics>>

NextRace ==
  \/ \E p \in DOMAIN Invocations : RaceGenerate(p)
  \/ \E p \in DOMAIN Invocations : RaceRead(p)
  \/ \E p \in DOMAIN Invocations : RaceWrite(p)

SpecRace == InitRace /\ [][NextRace]_vars

\* C29: no lock keeps the read and the write of a hub updater together.
\* When both runs have ended, both with exit code 0, a hub lacks the entry
\* of a resource exactly if the other process read the hub before that
\* entry was written and wrote the hub after it: the later write puts back
\* the text of the earlier read.  Runs whose updates of a hub do not
\* overlap leave both entries in it.
C29_LostUpdate ==
  (\A p \in DOMAIN Invocations : race.pc[p] = "exited") =>
    /\ \A p \in DOMAIN Invocations : race.exitCode[p] = 0
    /\ \A h \in HubPaths : \A p \in DOMAIN Invocations :
         /\ existsSync(files, h)
         /\ ~Includes(files[h], EntryOf(h, ResourceOf(p))) <=> p \in race.overtaken[h]

\* C29 witness: both runs have ended with exit code 0 and the registry
\* holds the entry of widget and not the entry of order.
C29_Witness ==
  /\ \A p \in DOMAIN Invocations : race.pc[p] = "exited" /\ race.exitCode[p] = 0
  /\ Includes(files[RegistryPath], EntryOf(RegistryPath, ResourceOf(2)))
  /\ ~Includes(files[RegistryPath], EntryOf(RegistryPath, ResourceOf(1)))

(***************************************************************************)
(* The analytics file cache: the module variable analyticsFileCache,        *)
(* getAnalyticsParquet and invalidateAnalyticsCache of the analytics query  *)
(* hook, called for one base URL by several callers on one event loop.  An  *)
(* action is the code that runs between two awaits.                         *)
(***************************************************************************)
\* The most that Date.now() advances, and the most invalidations.
MaxClock == 2

MaxInvalidations == 1

InitAnalytics ==
  /\ batch = Off
  /\ parser = Off
  /\ duck = Off
  /\ env = NoFaults
  /\ race = Off
  /\ files = InitialFiles([h \in HubPaths |-> "absent"], {})
  /\ dirs = InitialDirs(files)
  /\ pc = "off"
  /\ args = NoArgs
  /\ resource = NoResource
  /\ genIdx = 0
  /\ exitCode = Running
  /\ events = <<>>
  /\ runs = 0
  /\ files0 = files
  /\ prev = NoPrev
  /\ analytics = [cache |-> "none", now |-> 0, fetches |-> 0, registered |-> {},
                  invalidations |-> 0,
                  caller |-> [c \in 1..MaxCallers |-> "idle"],
                  filename |-> [c \in 1..MaxCallers |-> "none"]]

\* `analytics_${Date.now()}.parquet`
Filename(t) == <<"analytics_", t, ".parquet">>

\* getAnalyticsParquet(baseUrl) up to its return or its first await: the
\* cached filename is returned if the cache has the URL, else the caller
\* awaits getDuckDB()
GetAnalyticsParquet(c) ==
  /\ analytics.caller[c] = "idle"
  /\ analytics' = IF analytics.cache # "none"
                    THEN [analytics EXCEPT !.caller[c] = "returned",
                                           !.filename[c] = analytics.cache]
                  ELSE [analytics EXCEPT !.caller[c] = "getDuckDB"]
  /\ UNCHANGED <<generatorVars, batch, parser, duck, env, race>>

\* getDuckDB() has resolved: apiClient.get(parquetUrl) is called and awaited
\* (or getDuckDB() has rejected, and so does the call)
FetchParquet(c) ==
  /\ analytics.caller[c] = "getDuckDB"
  /\ \E resolved \in BOOLEAN :
       analytics' = IF resolved
                      THEN [analytics EXCEPT !.caller[c] = "get", !.fetches = @ + 1]
                    ELSE [analytics EXCEPT !.caller[c] = "rejected"]
  /\ UNCHANGED <<generatorVars, batch, parser, duck, env, race>>

\* The response has arrived: the filename is made of Date.now(), and
\* db.registerFileBuffer(filename, ...) is called and awaited (or the
\* request has failed, and the call rejects)
RegisterFileBuffer(c) ==
  /\ analytics.caller[c] = "get"
  /\ \E resolved \in BOOLEAN, t \in analytics.now..MaxClock :
       analytics' = IF resolved
                      THEN [analytics EXCEPT !.caller[c] = "registerFileBuffer",
                                             !.now = t,
                                             !.filename[c] = Filename(t),
                                             !.registered = @ \cup {Filename(t)}]
                    ELSE [analytics EXCEPT !.caller[c] = "rejected", !.now = t]
  /\ UNCHANGED <<generatorVars, batch, parser, duck, env, race>>

\* The file is registered: analyticsFileCache.set(parquetUrl, filename) and
\* the filename is returned
CacheSet(c) ==
  /\ analytics.caller[c] = "registerFileBuffer"
  /\ analytics' = [analytics EXCEPT !.caller[c] = "returned",
                                    !.cache = analytics.filename[c]]
  /\ UNCHANGED <<generatorVars, batch, parser, duck, env, race>>

\* invalidateAnalyticsCache(): analyticsFileCache.clear()
InvalidateAnalyticsCache ==
  /\ analytics.invalidations < MaxInvalidations
  /\ analytics' = [analytics EXCEPT !.cache = "none", !.invalidations = @ + 1]
  /\ UNCHANGED <<generatorVars, batch, parser, duck, env, race>>

NextAnalytics ==
  \/ \E c \in 1..MaxCallers : GetAnalyticsParquet(c)
  \/ \E c \in 1..MaxCallers : FetchParquet(c)
  \/ \E c \in 1..MaxCallers : RegisterFileBuffer(c)
  \/ \E c \in 1..MaxCallers : CacheSet(c)
  \/ InvalidateAnalyticsCache

SpecAnalytics == InitAnalytics /\ [][NextAnalytics]_vars

\* C30 (as claimed): as long as invalidateAnalyticsCache has not been
\* called, the parquet file of the URL is fetched at most once and
\* registered at most once, whatever the interleaving of the calls of
\* getAnalyticsParquet, and all calls that returned yielded the same
\* filename.
C30_AnalyticsCacheOnce ==
  analytics.invalidations = 0 =>
    /\ analytics.fetches <= 1
    /\ Cardinality(analytics.registered) <= 1
    /\ \A a \in 1..MaxCallers, b \in 1..MaxCallers :
         (analytics.caller[a] = "returned" /\ analytics.caller[b] = "returned")
           => analytics.filename[a] = analytics.filename[b]

====
